---- MODULE Spec2Model ----
(***************************************************************************)
(* Invoice server actions of app/lib/actions.ts: the validated module      *)
(* (createInvoice returns a form State) and the basic module (every        *)
(* failure is raised), both writing to the same invoices table.            *)
(***************************************************************************)
EXTENDS Integers, Sequences, FiniteSets, TLC

(***************************************************************************)
(* IEEE-754 binary64 arithmetic, as far as `Number(text) * 100` needs it.  *)
(* A natural number is a little-endian sequence of limbs in base 2^10 with *)
(* no leading zero limb; a double is m * 2^e with a 53-bit m.              *)
(***************************************************************************)
Base == 1024

MantissaBits == 53

RECURSIVE Pow(_, _)
Pow(b, n) == IF n = 0 THEN 1 ELSE b * Pow(b, n - 1)

RECURSIVE BitLen(_)
BitLen(n) == IF n = 0 THEN 0 ELSE 1 + BitLen(n \div 2)

RECURSIVE BigNorm(_)
BigNorm(a) ==
    IF a = <<>> THEN <<>>
    ELSE IF a[Len(a)] = 0 THEN BigNorm(SubSeq(a, 1, Len(a) - 1))
    ELSE a

RECURSIVE BigFromInt(_)
BigFromInt(n) ==
    IF n = 0 THEN <<>> ELSE <<n % Base>> \o BigFromInt(n \div Base)

RECURSIVE BigToInt(_)
BigToInt(a) ==
    IF a = <<>> THEN 0 ELSE a[1] + Base * BigToInt(Tail(a))

RECURSIVE BigMulCarry(_, _, _)
BigMulCarry(a, c, carry) ==
    IF a = <<>> THEN BigFromInt(carry)
    ELSE LET p == a[1] * c + carry
         IN  <<p % Base>> \o BigMulCarry(Tail(a), c, p \div Base)

BigMulSmall(a, c) == BigNorm(BigMulCarry(a, c, 0))

\* Long division of a by the small divisor d, most significant limb first.
RECURSIVE BigDivStep(_, _, _, _)
BigDivStep(a, d, i, acc) ==
    IF i = 0 THEN acc
    ELSE LET cur == acc.r * Base + a[i]
         IN  BigDivStep(a, d, i - 1,
                        [q |-> <<cur \div d>> \o acc.q, r |-> cur % d])

BigDivSmall(a, d) ==
    LET res == BigDivStep(a, d, Len(a), [q |-> <<>>, r |-> 0])
    IN  [q |-> BigNorm(res.q), r |-> res.r]

BigBitLen(a) ==
    IF a = <<>> THEN 0 ELSE (Len(a) - 1) * 10 + BitLen(a[Len(a)])

BigShl(a, n) ==
    IF a = <<>> THEN <<>>
    ELSE [i \in 1..(n \div 10) |-> 0] \o BigMulSmall(a, Pow(2, n % 10))

BigIsOdd(a) == a # <<>> /\ a[1] % 2 = 1

RECURSIVE BigInc(_)
BigInc(a) ==
    IF a = <<>> THEN <<1>>
    ELSE IF a[1] + 1 < Base THEN <<a[1] + 1>> \o Tail(a)
    ELSE <<0>> \o BigInc(Tail(a))

\* The quotient qr.q of a division by d, rounded by its remainder qr.r to
\* nearest, ties to even (the IEEE default rounding).
RoundQuotient(qr, d) ==
    IF 2 * qr.r > d \/ (2 * qr.r = d /\ BigIsOdd(qr.q))
    THEN BigInc(qr.q) ELSE qr.q

\* a / d rounded to nearest, ties to even.
RoundDiv(a, d) == RoundQuotient(BigDivSmall(a, d), d)

NaN == [nan |-> TRUE, neg |-> FALSE, m |-> <<>>, e |-> 0]

Zero(neg) == [nan |-> FALSE, neg |-> neg, m |-> <<>>, e |-> 0]

\* The double m * 2^e, after a rounding that may have carried into bit 54.
Renorm(neg, m, e) ==
    IF BigBitLen(m) > MantissaBits
    THEN [nan |-> FALSE, neg |-> neg, m |-> BigDivSmall(m, 2).q, e |-> e + 1]
    ELSE [nan |-> FALSE, neg |-> neg, m |-> m, e |-> e]

\* The largest b with 2^b <= n / den, for positive n and den: BitLen(n) -
\* BitLen(den), or one less.
FloorLog2(n, den) ==
    LET b == BitLen(n) - BitLen(den)
    IN  IF (b >= 0 /\ n >= den * Pow(2, b)) \/ (b < 0 /\ n * Pow(2, -b) >= den)
        THEN b ELSE b - 1

\* The double nearest to n / den: the quotient scaled to 53 bits by 2^t.
NearestDouble(neg, n, den, t) ==
    Renorm(neg, RoundDiv(BigShl(BigFromInt(n), t), den), -t)

\* The double nearest to the decimal n / 10^k (n a natural number).
DecimalToDouble(neg, n, k) ==
    IF n = 0 THEN Zero(neg)
    ELSE NearestDouble(neg, n, Pow(10, k),
                       MantissaBits - 1 - FloorLog2(n, Pow(10, k)))

\* d * c for a small positive integer c: the exact product, rounded once.
DoubleTimes(d, c) ==
    IF d.nan THEN NaN
    ELSE IF d.m = <<>> THEN d
    ELSE LET p == BigMulSmall(d.m, c)
             s == BigBitLen(p) - MantissaBits
         IN  Renorm(d.neg, RoundDiv(p, Pow(2, s)), d.e + s)

DoubleGt0(d) == ~d.nan /\ ~d.neg /\ d.m # <<>>

\* Shift right by n bits; ok is FALSE when a nonzero bit is shifted out.
RECURSIVE BigShrExact(_, _)
BigShrExact(a, n) ==
    IF n = 0 \/ a = <<>> THEN [ok |-> TRUE, v |-> a]
    ELSE IF n >= 10
         THEN IF a[1] = 0 THEN BigShrExact(Tail(a), n - 10)
              ELSE [ok |-> FALSE, v |-> <<>>]
    ELSE LET qr == BigDivSmall(a, Pow(2, n))
         IN  [ok |-> qr.r = 0, v |-> qr.q]

DoubleIsInteger(d) ==
    ~d.nan /\ (d.e >= 0 \/ BigShrExact(d.m, -d.e).ok)

\* The integer a double holds (for doubles below 2^30 in magnitude).
DoubleToInt(d) ==
    LET v == BigToInt(BigShrExact(d.m, -d.e).v)
    IN  IF d.neg THEN -v ELSE v

(***************************************************************************)
(* Text.  The amount field and the date are sequences of one-character     *)
(* strings, so that parsing, padding and splitting act on characters.      *)
(***************************************************************************)
Digits == <<"0", "1", "2", "3", "4", "5", "6", "7", "8", "9">>

IsDigit(c) == \E i \in 1..10 : Digits[i] = c

DigitVal(c) == (CHOOSE i \in 1..10 : Digits[i] = c) - 1

RECURSIVE DigitsToInt(_)
DigitsToInt(s) ==
    IF s = <<>> THEN 0
    ELSE DigitsToInt(SubSeq(s, 1, Len(s) - 1)) * 10 + DigitVal(s[Len(s)])

\* The decimal a text spells, for a text without whitespace or exponent:
\* an optional sign, digits, at most one point and at least one digit.
ParseDecimal(s) ==
    LET signed == s # <<>> /\ s[1] \in {"-", "+"}
        body   == IF signed THEN Tail(s) ELSE s
        points == {i \in 1..Len(body) : body[i] = "."}
        digs   == SelectSeq(body, IsDigit)
    IN  [ok  |-> /\ Cardinality(points) <= 1
                 /\ digs # <<>>
                 /\ Len(digs) + Cardinality(points) = Len(body),
         neg |-> s # <<>> /\ s[1] = "-",
         n   |-> DigitsToInt(digs),
         k   |-> IF points = {} THEN 0
                 ELSE Len(body) - (CHOOSE i \in points : TRUE)]

\* The double of a parsed text: NaN for what is no decimal.
DecimalValue(dec) ==
    IF ~dec.ok THEN NaN ELSE DecimalToDouble(dec.neg, dec.n, dec.k)

\* StringToNumber: "" is 0, a decimal is the nearest double, else NaN.
StringToNumber(s) ==
    IF s = <<>> THEN Zero(FALSE) ELSE DecimalValue(ParseDecimal(s))

\* What FormData.get hands over: a string, a File, or null when absent.
NullEntry == [t |-> "null", v |-> ""]

FileEntry == [t |-> "file", v |-> ""]

StrEntry(s) == [t |-> "str", v |-> s]

NullAmount == [t |-> "null", v |-> <<>>]

\* The double d, or 0 when it is NaN.
OrZero(d) == IF d.nan THEN Zero(FALSE) ELSE d

\* Number(value) || 0: what is not a number counts as 0.
NumberOrZero(raw) ==
    IF raw.t = "str" THEN OrZero(StringToNumber(raw.v)) ELSE Zero(FALSE)

\* Number(value) on a form entry: null is 0, a File is NaN.
Number(raw) ==
    IF raw.t = "null" THEN Zero(FALSE)
    ELSE IF raw.t = "str" THEN StringToNumber(raw.v)
    ELSE NaN

Text1999 == <<"1", "9", ".", "9", "9">>

Text1005 == <<"1", ".", "0", "0", "5">>

\* The amount entries that are submitted.
AmountInputs ==
    {NullAmount, StrEntry(<<>>), StrEntry(<<"a", "b", "c">>), StrEntry(<<"0">>),
     StrEntry(<<"-", "1">>), StrEntry(<<"5">>), StrEntry(Text1999),
     StrEntry(Text1005)}

\* Number(value) of every submitted amount entry, computed once.
NumberMemo == [raw \in AmountInputs |-> Number(raw)]

\* The coercion of z.coerce.number: Number(value).
Coerce(raw) == NumberMemo[raw]

\* zod's name for the type of a value it rejects.
ParsedType(raw) ==
    IF raw.t = "null" THEN "null"
    ELSE IF raw.t = "str" THEN "string"
    ELSE "object"

RECURSIVE PadStart(_, _)
PadStart(s, n) == IF Len(s) >= n THEN s ELSE PadStart(<<"0">> \o s, n)

RECURSIVE IntToDigits(_)
IntToDigits(n) ==
    IF n < 10 THEN <<Digits[n + 1]>>
    ELSE IntToDigits(n \div 10) \o <<Digits[(n % 10) + 1]>>

\* Date.prototype.toISOString for a year of 0..9999, from the UTC fields.
toISOString(d) ==
    PadStart(IntToDigits(d.year), 4) \o <<"-">>
    \o PadStart(IntToDigits(d.month), 2) \o <<"-">>
    \o PadStart(IntToDigits(d.day), 2) \o <<"T">>
    \o PadStart(IntToDigits(d.hour), 2) \o <<":">>
    \o PadStart(IntToDigits(d.minute), 2) \o <<":">>
    \o PadStart(IntToDigits(d.second), 2) \o <<".">>
    \o PadStart(IntToDigits(d.ms), 3) \o <<"Z">>

\* s.split(sep)[0]: the text before the first separator, or all of it.
SplitFirst(s, sep) ==
    LET hits == {i \in 1..Len(s) : s[i] = sep}
    IN  IF hits = {} THEN s
        ELSE SubSeq(s, 1, (CHOOSE i \in hits : \A j \in hits : i <= j) - 1)

\* new Date().toISOString(), not split.
DateOfUnsplit(now) == toISOString(now)

\* new Date().toISOString().split('T')[0]
DateOf(now) == SplitFirst(toISOString(now), "T")

(***************************************************************************)
(* The zod schemas.  A field schema is its type, its options and its       *)
(* checks; "" stands for an option that is not given.                      *)
(***************************************************************************)
ZString(msg) ==
    [type |-> "string", invalid_type_error |-> msg, gt0 |-> FALSE, gtMessage |-> ""]

ZCoerceNumber(gt0, msg) ==
    [type |-> "number", invalid_type_error |-> "", gt0 |-> gt0, gtMessage |-> msg]

ZEnum(msg) ==
    [type |-> "enum", invalid_type_error |-> msg, gt0 |-> FALSE, gtMessage |-> ""]

EnumValues == {"pending", "paid"}

EnumExpected == "'pending' | 'paid'"

\* The schema of the validated module.
FormSchema ==
    [id         |-> ZString(""),
     customerId |-> ZString("Please select a customer."),
     amount     |-> ZCoerceNumber(TRUE, "Please enter an amount greater than $0."),
     status     |-> ZEnum("Please select an invoice status."),
     date       |-> ZString("")]

\* The schema of the basic module.
BasicFormSchema ==
    [id         |-> ZString(""),
     customerId |-> ZString(""),
     amount     |-> ZCoerceNumber(FALSE, ""),
     status     |-> ZEnum(""),
     date       |-> ZString("")]

Omit(schema, keys) == [k \in (DOMAIN schema) \ keys |-> schema[k]]

CreateInvoice == Omit(FormSchema, {"id", "date"})

UpdateInvoice == Omit(FormSchema, {"id", "date"})

BasicCreateInvoice == Omit(BasicFormSchema, {"id", "date"})

BasicUpdateInvoice == Omit(BasicFormSchema, {"id", "date"})

\* The message of an invalid_type issue: invalid_type_error when given,
\* else the default of zod's error map.
TypeMessage(fs, expected, received) ==
    IF fs.invalid_type_error # "" THEN fs.invalid_type_error
    ELSE "Expected " \o expected \o ", received " \o received

NoIssue == [code |-> "", message |-> ""]

Issue(code, message) == [code |-> code, message |-> message]

\* The issue a number schema raises on the coerced value d.
NumberIssue(fs, d) ==
    IF d.nan THEN Issue("invalid_type", TypeMessage(fs, "number", "nan"))
    ELSE IF fs.gt0 /\ ~DoubleGt0(d) THEN Issue("too_small", fs.gtMessage)
    ELSE NoIssue

\* The issue a field schema raises on a form entry (NoIssue when it passes).
\* invalid_type_error replaces the message of invalid_type issues only: an
\* enum given a string outside its values raises invalid_enum_value, with
\* the default message.
FieldIssue(fs, raw) ==
    IF fs.type = "string"
    THEN IF raw.t = "str" THEN NoIssue
         ELSE Issue("invalid_type", TypeMessage(fs, "string", ParsedType(raw)))
    ELSE IF fs.type = "number" THEN NumberIssue(fs, Coerce(raw))
    ELSE IF raw.t # "str"
         THEN Issue("invalid_type", TypeMessage(fs, EnumExpected, ParsedType(raw)))
         ELSE IF raw.v \notin EnumValues
         THEN Issue("invalid_enum_value",
                    "Invalid enum value. Expected " \o EnumExpected
                        \o ", received '" \o raw.v \o "'")
         ELSE NoIssue

\* The value a field schema hands on for an entry that passes.
FieldData(fs, raw) == IF fs.type = "number" THEN Coerce(raw) ELSE raw.v

\* The result of a parse whose fields raised the given issues:
\* error.flatten().fieldErrors lists the messages of each field that failed.
ParseResult(data, issues) ==
    [success     |-> \A k \in DOMAIN issues : issues[k] = NoIssue,
     data        |-> data,
     fieldErrors |-> [k \in {f \in DOMAIN issues : issues[f] # NoIssue}
                        |-> <<issues[k].message>>],
     codes       |-> [k \in {f \in DOMAIN issues : issues[f] # NoIssue}
                        |-> issues[k].code]]

\* schema.safeParse(input): the parsed data, or the issues by field.
SafeParse(schema, input) ==
    ParseResult([k \in DOMAIN schema |-> FieldData(schema[k], input[k])],
                [k \in DOMAIN schema |-> FieldIssue(schema[k], input[k])])

(***************************************************************************)
(* The invoices table behind `sql`, and what one call leaves behind.       *)
(***************************************************************************)
InvoicesPath == "/dashboard/invoices"

Statement(op, id, customerId, amount, status, date) ==
    [op |-> op, id |-> id, customer_id |-> customerId, amount |-> amount,
     status |-> status, date |-> date]

\* INSERT INTO invoices (customer_id, amount, status, date) VALUES (...)
SqlInsert(rows, newId, s) ==
    rows \cup {[id |-> newId, customer_id |-> s.customer_id, amount |-> s.amount,
                status |-> s.status, date |-> s.date]}

\* UPDATE invoices SET customer_id, amount, status, without the WHERE.
SqlUpdateAll(rows, s) ==
    {[r EXCEPT !.customer_id = s.customer_id, !.amount = s.amount,
               !.status = s.status] : r \in rows}

\* UPDATE invoices SET customer_id, amount, status WHERE id = ...
SqlUpdate(rows, s) ==
    {IF r.id = s.id
     THEN [r EXCEPT !.customer_id = s.customer_id, !.amount = s.amount,
                    !.status = s.status]
     ELSE r : r \in rows}

\* DELETE FROM invoices WHERE id = ...
SqlDelete(rows, s) == {r \in rows : r.id # s.id}

Event(ev, arg) == [ev |-> ev, arg |-> arg]

NoErrors == [k \in {} |-> <<>>]

\* The call returned an object with the given keys (none: undefined).
Returned(keys, errors, message) ==
    [kind |-> "returned", keys |-> keys, errors |-> errors,
     message |-> message, error |-> ""]

\* The call raised.
Thrown(error, message, errors) ==
    [kind |-> "thrown", keys |-> {}, errors |-> errors,
     message |-> message, error |-> error]

\* redirect(path) left the call by raising NEXT_REDIRECT.
Redirected(path) ==
    [kind |-> "redirect", keys |-> {}, errors |-> NoErrors,
     message |-> path, error |-> "NEXT_REDIRECT"]

Effect(rows, nid, trace, stmts, result) ==
    [store |-> rows, nextId |-> nid, trace |-> trace, stmts |-> stmts,
     result |-> result]

RawFormData(formData) ==
    [customerId |-> formData.customerId, amount |-> formData.amount,
     status |-> formData.status]

\* createInvoice without the early return on a failed validation.
createInvoiceNoEarlyReturn(rows, nid, formData, now, dbOk) ==
    LET validatedFields == SafeParse(CreateInvoice, RawFormData(formData))
        amountInCents   == DoubleTimes(validatedFields.data.amount, 100)
        date            == DateOf(now)
        stmt == Statement("INSERT", 0, validatedFields.data.customerId,
                          amountInCents, validatedFields.data.status, date)
    IN  IF ~dbOk
        THEN Effect(rows, nid, <<Event("sql", "INSERT")>>, <<stmt>>,
                    Returned({"message"}, NoErrors,
                             "Database Error: Failed to Create Invoice."))
        ELSE Effect(SqlInsert(rows, nid, stmt), nid + 1,
                    <<Event("sql", "INSERT"), Event("revalidatePath", InvoicesPath),
                      Event("redirect", InvoicesPath)>>,
                    <<stmt>>, Redirected(InvoicesPath))

\* createInvoice raising the failure of the INSERT, as the basic module does.
createInvoiceRethrows(rows, nid, formData, now, dbOk) ==
    LET validatedFields == SafeParse(CreateInvoice, RawFormData(formData))
        amountInCents   == DoubleTimes(validatedFields.data.amount, 100)
        date            == DateOf(now)
        stmt == Statement("INSERT", 0, validatedFields.data.customerId,
                          amountInCents, validatedFields.data.status, date)
    IN  IF ~validatedFields.success
        THEN Effect(rows, nid, <<>>, <<>>,
                    Returned({"errors", "message"}, validatedFields.fieldErrors,
                             "Missing Fields. Failed to Create Invoice."))
        ELSE IF ~dbOk
        THEN Effect(rows, nid, <<Event("sql", "INSERT")>>, <<stmt>>,
                    Thrown("Error", "Failed to create invoice", NoErrors))
        ELSE Effect(SqlInsert(rows, nid, stmt), nid + 1,
                    <<Event("sql", "INSERT"), Event("revalidatePath", InvoicesPath),
                      Event("redirect", InvoicesPath)>>,
                    <<stmt>>, Redirected(InvoicesPath))

\* createInvoice(prevState, formData) of the validated module.
createInvoice(rows, nid, formData, now, dbOk) ==
    LET validatedFields == SafeParse(CreateInvoice, RawFormData(formData))
        amountInCents   == DoubleTimes(validatedFields.data.amount, 100)
        date            == DateOf(now)
        stmt == Statement("INSERT", 0, validatedFields.data.customerId,
                          amountInCents, validatedFields.data.status, date)
    IN  IF ~validatedFields.success
        THEN Effect(rows, nid, <<>>, <<>>,
                    Returned({"errors", "message"}, validatedFields.fieldErrors,
                             "Missing Fields. Failed to Create Invoice."))
        ELSE IF ~dbOk
        THEN Effect(rows, nid, <<Event("sql", "INSERT")>>, <<stmt>>,
                    Returned({"message"}, NoErrors,
                             "Database Error: Failed to Create Invoice."))
        ELSE Effect(SqlInsert(rows, nid, stmt), nid + 1,
                    <<Event("sql", "INSERT"), Event("revalidatePath", InvoicesPath),
                      Event("redirect", InvoicesPath)>>,
                    <<stmt>>, Redirected(InvoicesPath))

\* updateInvoice(id, formData) of the validated module.
updateInvoice(rows, nid, id, formData, dbOk) ==
    LET parsed        == SafeParse(UpdateInvoice, RawFormData(formData))
        amountInCents == DoubleTimes(parsed.data.amount, 100)
        stmt == Statement("UPDATE", id, parsed.data.customerId, amountInCents,
                          parsed.data.status, <<>>)
    IN  IF ~parsed.success
        THEN Effect(rows, nid, <<>>, <<>>, Thrown("ZodError", "", parsed.fieldErrors))
        ELSE IF ~dbOk
        THEN Effect(rows, nid,
                    <<Event("sql", "UPDATE"),
                      Event("console.error", "Error updating invoice:")>>,
                    <<stmt>>, Thrown("Error", "Failed to update invoice", NoErrors))
        ELSE Effect(SqlUpdate(rows, stmt), nid,
                    <<Event("sql", "UPDATE"), Event("revalidatePath", InvoicesPath),
                      Event("redirect", InvoicesPath)>>,
                    <<stmt>>, Redirected(InvoicesPath))

\* deleteInvoice catching the failure of the DELETE and returning a message.
deleteInvoiceCatches(rows, nid, id, dbOk) ==
    LET stmt == Statement("DELETE", id, "", Zero(FALSE), "", <<>>)
    IN  IF ~dbOk
        THEN Effect(rows, nid, <<Event("sql", "DELETE")>>, <<stmt>>,
                    Returned({"message"}, NoErrors,
                             "Database Error: Failed to Delete Invoice."))
        ELSE Effect(SqlDelete(rows, stmt), nid,
                    <<Event("sql", "DELETE"), Event("revalidatePath", InvoicesPath)>>,
                    <<stmt>>, Returned({}, NoErrors, ""))

\* deleteInvoice(id) of the validated module.
deleteInvoice(rows, nid, id, dbOk) ==
    LET stmt == Statement("DELETE", id, "", Zero(FALSE), "", <<>>)
    IN  IF ~dbOk
        THEN Effect(rows, nid, <<Event("sql", "DELETE")>>, <<stmt>>,
                    Thrown("PostgresError", "", NoErrors))
        ELSE Effect(SqlDelete(rows, stmt), nid,
                    <<Event("sql", "DELETE"), Event("revalidatePath", InvoicesPath)>>,
                    <<stmt>>, Returned({}, NoErrors, ""))

\* createInvoice(formData) of the basic module.
basicCreateInvoice(rows, nid, formData, now, dbOk) ==
    LET parsed        == SafeParse(BasicCreateInvoice, RawFormData(formData))
        amountInCents == DoubleTimes(parsed.data.amount, 100)
        date          == DateOf(now)
        stmt == Statement("INSERT", 0, parsed.data.customerId, amountInCents,
                          parsed.data.status, date)
    IN  IF ~parsed.success
        THEN Effect(rows, nid, <<>>, <<>>, Thrown("ZodError", "", parsed.fieldErrors))
        ELSE IF ~dbOk
        THEN Effect(rows, nid,
                    <<Event("sql", "INSERT"),
                      Event("console.error", "Error inserting invoice:")>>,
                    <<stmt>>, Thrown("Error", "Failed to create invoice", NoErrors))
        ELSE Effect(SqlInsert(rows, nid, stmt), nid + 1,
                    <<Event("sql", "INSERT"), Event("revalidatePath", InvoicesPath),
                      Event("redirect", InvoicesPath)>>,
                    <<stmt>>, Redirected(InvoicesPath))

\* updateInvoice of the basic module without the revalidatePath.
basicUpdateInvoiceNoRevalidate(rows, nid, id, formData, dbOk) ==
    LET parsed        == SafeParse(BasicUpdateInvoice, RawFormData(formData))
        amountInCents == DoubleTimes(parsed.data.amount, 100)
        stmt == Statement("UPDATE", id, parsed.data.customerId, amountInCents,
                          parsed.data.status, <<>>)
    IN  IF ~parsed.success
        THEN Effect(rows, nid, <<>>, <<>>, Thrown("ZodError", "", parsed.fieldErrors))
        ELSE IF ~dbOk
        THEN Effect(rows, nid,
                    <<Event("sql", "UPDATE"),
                      Event("console.error", "Error updating invoice:")>>,
                    <<stmt>>, Thrown("Error", "Failed to update invoice", NoErrors))
        ELSE Effect(SqlUpdate(rows, stmt), nid,
                    <<Event("sql", "UPDATE"), Event("redirect", InvoicesPath)>>,
                    <<stmt>>, Redirected(InvoicesPath))

\* updateInvoice(id, formData) of the basic module.
basicUpdateInvoice(rows, nid, id, formData, dbOk) ==
    LET parsed        == SafeParse(BasicUpdateInvoice, RawFormData(formData))
        amountInCents == DoubleTimes(parsed.data.amount, 100)
        stmt == Statement("UPDATE", id, parsed.data.customerId, amountInCents,
                          parsed.data.status, <<>>)
    IN  IF ~parsed.success
        THEN Effect(rows, nid, <<>>, <<>>, Thrown("ZodError", "", parsed.fieldErrors))
        ELSE IF ~dbOk
        THEN Effect(rows, nid,
                    <<Event("sql", "UPDATE"),
                      Event("console.error", "Error updating invoice:")>>,
                    <<stmt>>, Thrown("Error", "Failed to update invoice", NoErrors))
        ELSE Effect(SqlUpdate(rows, stmt), nid,
                    <<Event("sql", "UPDATE"), Event("revalidatePath", InvoicesPath),
                      Event("redirect", InvoicesPath)>>,
                    <<stmt>>, Redirected(InvoicesPath))

\* deleteInvoice(id) of the basic module.
basicDeleteInvoice(rows, nid, id, dbOk) ==
    LET stmt == Statement("DELETE", id, "", Zero(FALSE), "", <<>>)
    IN  IF ~dbOk
        THEN Effect(rows, nid, <<Event("sql", "DELETE")>>, <<stmt>>,
                    Thrown("PostgresError", "", NoErrors))
        ELSE Effect(SqlDelete(rows, stmt), nid,
                    <<Event("sql", "DELETE"), Event("revalidatePath", InvoicesPath)>>,
                    <<stmt>>, Returned({}, NoErrors, ""))

(***************************************************************************)
(* Inputs: the form entries, the instants `new Date()` may return, the     *)
(* outcome of the one statement a call sends, and the ids a caller passes. *)
(***************************************************************************)
MaxOps == 2

MaxCalls == 1

\* The ids of the two invoices the table starts with, and one more.
IdInputs == {1, 2, 3}

Instants ==
    {[year |-> 2025, month |-> 6, day |-> 9, hour |-> 23, minute |-> 5,
      second |-> 0, ms |-> 7],
     [year |-> 2024, month |-> 12, day |-> 31, hour |-> 8, minute |-> 30,
      second |-> 15, ms |-> 250]}

CustomerInputs == {NullEntry, FileEntry, StrEntry(""), StrEntry("c1")}

StatusInputs == {NullEntry, StrEntry("overdue"), StrEntry("pending"), StrEntry("paid")}

FormData(c, a, s) == [customerId |-> c, amount |-> a, status |-> s]

\* Every combination of the entries above.
FormDataAll ==
    {FormData(c, a, s) : c \in CustomerInputs, a \in AmountInputs, s \in StatusInputs}

\* A valid form, and the forms that differ from a valid one in one field.
Payloads ==
    {FormData(StrEntry("c1"), StrEntry(Text1999), StrEntry("paid")),
     FormData(StrEntry("c2"), StrEntry(<<"5">>), StrEntry("pending")),
     FormData(StrEntry("c1"), StrEntry(Text1005), StrEntry("pending")),
     FormData(NullEntry, StrEntry(<<"5">>), StrEntry("paid")),
     FormData(StrEntry(""), StrEntry(<<"5">>), StrEntry("paid")),
     FormData(StrEntry("c1"), StrEntry(<<"0">>), StrEntry("paid")),
     FormData(StrEntry("c1"), StrEntry(<<"-", "1">>), StrEntry("pending")),
     FormData(StrEntry("c1"), StrEntry(<<"a", "b", "c">>), StrEntry("paid")),
     FormData(StrEntry("c1"), NullAmount, StrEntry("paid")),
     FormData(StrEntry("c1"), StrEntry(<<"5">>), StrEntry("overdue")),
     FormData(StrEntry("c1"), StrEntry(<<"5">>), NullEntry),
     FormData(NullEntry, StrEntry(<<"a", "b", "c">>), NullEntry)}

(***************************************************************************)
(* State: the invoices table, the id the table assigns next, and a record  *)
(* of the last call (what it was given, what it did, how it ended) with    *)
(* the table as that call found it.                                        *)
(***************************************************************************)
VARIABLES store, nextId, pre, last, nops

vars == <<store, nextId, pre, last, nops>>

NoInstant ==
    [year |-> 0, month |-> 0, day |-> 0, hour |-> 0, minute |-> 0,
     second |-> 0, ms |-> 0]

NoCall ==
    [op |-> "none", module |-> "none", id |-> 0,
     formData |-> FormData(NullEntry, NullAmount, NullEntry),
     now |-> NoInstant, dbOk |-> TRUE, trace |-> <<>>, stmts |-> <<>>,
     result |-> Returned({}, NoErrors, "")]

\* The table holds invoices that earlier calls created.
SeedStore ==
    LET first  == createInvoice({}, 1,
                      FormData(StrEntry("c1"), StrEntry(<<"5">>), StrEntry("pending")),
                      CHOOSE i \in Instants : i.year = 2025, TRUE)
        second == basicCreateInvoice(first.store, first.nextId,
                      FormData(StrEntry("c2"), StrEntry(<<"5">>), StrEntry("paid")),
                      CHOOSE i \in Instants : i.year = 2025, TRUE)
    IN  second

Init ==
    /\ store = SeedStore.store
    /\ nextId = SeedStore.nextId
    /\ pre = SeedStore.store
    /\ last = NoCall
    /\ nops = 0

\* One call ran to its end with effect eff.  Inputs the call never read
\* (the clock and the statement's outcome, when no statement was sent) are
\* not recorded.
Record(op, module, id, formData, now, dbOk, eff) ==
    /\ store' = eff.store
    /\ nextId' = eff.nextId
    /\ pre' = store
    /\ last' = [op |-> op, module |-> module, id |-> id, formData |-> formData,
                now |-> IF eff.stmts # <<>> /\ op = "createInvoice"
                        THEN now ELSE NoInstant,
                dbOk |-> (eff.stmts = <<>> \/ dbOk),
                trace |-> eff.trace, stmts |-> eff.stmts, result |-> eff.result]
    /\ nops' = nops + 1

CreateInvoiceValidated(formData, now, dbOk) ==
    Record("createInvoice", "validated", 0, formData, now, dbOk,
           createInvoice(store, nextId, formData, now, dbOk))

UpdateInvoiceValidated(id, formData, dbOk) ==
    Record("updateInvoice", "validated", id, formData, NoInstant, dbOk,
           updateInvoice(store, nextId, id, formData, dbOk))

DeleteInvoiceValidated(id, dbOk) ==
    Record("deleteInvoice", "validated", id, NoCall.formData, NoInstant, dbOk,
           deleteInvoice(store, nextId, id, dbOk))

CreateInvoiceBasic(formData, now, dbOk) ==
    Record("createInvoice", "basic", 0, formData, now, dbOk,
           basicCreateInvoice(store, nextId, formData, now, dbOk))

UpdateInvoiceBasic(id, formData, dbOk) ==
    Record("updateInvoice", "basic", id, formData, NoInstant, dbOk,
           basicUpdateInvoice(store, nextId, id, formData, dbOk))

DeleteInvoiceBasic(id, dbOk) ==
    Record("deleteInvoice", "basic", id, NoCall.formData, NoInstant, dbOk,
           basicDeleteInvoice(store, nextId, id, dbOk))

\* Sequences of up to MaxOps calls on the forms of Payloads.
Next ==
    \/ \E fd \in Payloads, now \in Instants, dbOk \in BOOLEAN :
           nops < MaxOps /\ CreateInvoiceValidated(fd, now, dbOk)
    \/ \E id \in IdInputs, fd \in Payloads, dbOk \in BOOLEAN :
           nops < MaxOps /\ UpdateInvoiceValidated(id, fd, dbOk)
    \/ \E id \in IdInputs, dbOk \in BOOLEAN :
           nops < MaxOps /\ DeleteInvoiceValidated(id, dbOk)
    \/ \E fd \in Payloads, now \in Instants, dbOk \in BOOLEAN :
           nops < MaxOps /\ CreateInvoiceBasic(fd, now, dbOk)
    \/ \E id \in IdInputs, fd \in Payloads, dbOk \in BOOLEAN :
           nops < MaxOps /\ UpdateInvoiceBasic(id, fd, dbOk)
    \/ \E id \in IdInputs, dbOk \in BOOLEAN :
           nops < MaxOps /\ DeleteInvoiceBasic(id, dbOk)

Spec == Init /\ [][Next]_vars

\* Up to MaxCalls calls on every combination of form entries.
NextForm ==
    \/ \E fd \in FormDataAll, now \in Instants, dbOk \in BOOLEAN :
           nops < MaxCalls /\ CreateInvoiceValidated(fd, now, dbOk)
    \/ \E id \in IdInputs, fd \in FormDataAll, dbOk \in BOOLEAN :
           nops < MaxCalls /\ UpdateInvoiceValidated(id, fd, dbOk)
    \/ \E id \in IdInputs, dbOk \in BOOLEAN :
           nops < MaxCalls /\ DeleteInvoiceValidated(id, dbOk)
    \/ \E fd \in FormDataAll, now \in Instants, dbOk \in BOOLEAN :
           nops < MaxCalls /\ CreateInvoiceBasic(fd, now, dbOk)
    \/ \E id \in IdInputs, fd \in FormDataAll, dbOk \in BOOLEAN :
           nops < MaxCalls /\ UpdateInvoiceBasic(id, fd, dbOk)
    \/ \E id \in IdInputs, dbOk \in BOOLEAN :
           nops < MaxCalls /\ DeleteInvoiceBasic(id, dbOk)

SpecForm == Init /\ [][NextForm]_vars

(***************************************************************************)
(* Vocabulary of the properties.                                           *)
(***************************************************************************)
CallIs(op, module) == last.op = op /\ last.module = module

Elems(seq) == {seq[i] : i \in 1..Len(seq)}

Happened(ev) == \E i \in 1..Len(last.trace) : last.trace[i].ev = ev

IsSql(e) == e.ev = "sql"

SqlCount == Len(SelectSeq(last.trace, IsSql))

\* d spells the UTC day of the instant as YYYY-MM-DD.
IsDateOf(d, instant) ==
    /\ Len(d) = 10
    /\ d[5] = "-" /\ d[8] = "-"
    /\ \A i \in {1, 2, 3, 4, 6, 7, 9, 10} : IsDigit(d[i])
    /\ DigitsToInt(SubSeq(d, 1, 4)) = instant.year
    /\ DigitsToInt(SubSeq(d, 6, 7)) = instant.month
    /\ DigitsToInt(SubSeq(d, 9, 10)) = instant.day

\* The text holds a character that no number is written with.
NonNumericEntry(raw) ==
    \/ raw.t = "file"
    \/ raw.t = "str" /\ \E i \in 1..Len(raw.v) :
           ~IsDigit(raw.v[i]) /\ raw.v[i] \notin {"+", "-", "."}

SchemaOfUpdate(module) ==
    IF module = "validated" THEN UpdateInvoice ELSE BasicUpdateInvoice

RedirectTrace(op) ==
    <<Event("sql", op), Event("revalidatePath", InvoicesPath),
      Event("redirect", InvoicesPath)>>

(***************************************************************************)
(* C1.  createInvoice of the validated module, given a form that fails     *)
(* validation, returns the field errors with the message "Missing Fields.  *)
(* Failed to Create Invoice."; it sends no statement, invalidates nothing, *)
(* redirects nowhere and leaves the table as it was.  An amount that       *)
(* coerces to 0 or less is reported under errors.amount.                   *)
(***************************************************************************)
C1_InvalidCreateReturnsErrors ==
    (CallIs("createInvoice", "validated")
        /\ ~SafeParse(CreateInvoice, last.formData).success)
    => /\ last.result.kind = "returned"
       /\ last.result.keys = {"errors", "message"}
       /\ last.result.message = "Missing Fields. Failed to Create Invoice."
       /\ DOMAIN last.result.errors # {}
       /\ DOMAIN last.result.errors \subseteq {"customerId", "amount", "status"}
       /\ \A k \in DOMAIN last.result.errors : last.result.errors[k] # <<>>
       /\ (~Number(last.formData.amount).nan
              /\ ~DoubleGt0(Number(last.formData.amount)))
          => /\ "amount" \in DOMAIN last.result.errors
             /\ "Please enter an amount greater than $0."
                    \in Elems(last.result.errors["amount"])
       /\ last.stmts = <<>>
       /\ last.trace = <<>>
       /\ store = pre

W1_InvalidCreateReturned ==
    /\ CallIs("createInvoice", "validated")
    /\ last.formData.amount = StrEntry(<<"-", "1">>)
    /\ last.formData.customerId = StrEntry("c1")
    /\ last.result.kind = "returned"
    /\ DOMAIN last.result.errors = {"amount"}
    /\ store = pre

(***************************************************************************)
(* C2.  createInvoice of the validated module, given a valid form and a    *)
(* statement that succeeds, sends exactly one INSERT carrying customerId,  *)
(* amount * 100, status and the current date as YYYY-MM-DD, then           *)
(* invalidates the listing, then redirects to it, and returns no value.    *)
(***************************************************************************)
C2_ValidCreateInsertsThenRedirects ==
    (CallIs("createInvoice", "validated")
        /\ SafeParse(CreateInvoice, last.formData).success
        /\ last.dbOk)
    => /\ Len(last.stmts) = 1
       /\ last.stmts[1].op = "INSERT"
       /\ last.stmts[1].customer_id = last.formData.customerId.v
       /\ last.stmts[1].amount = DoubleTimes(Number(last.formData.amount), 100)
       /\ last.stmts[1].status = last.formData.status.v
       /\ IsDateOf(last.stmts[1].date, last.now)
       /\ last.trace = RedirectTrace("INSERT")
       /\ last.result.kind = "redirect"
       /\ last.result.message = InvoicesPath
       /\ Cardinality(store) = Cardinality(pre) + 1
       /\ pre \subseteq store
       /\ \A r \in store \ pre :
              /\ r.customer_id = last.stmts[1].customer_id
              /\ r.amount = last.stmts[1].amount
              /\ r.status = last.stmts[1].status
              /\ r.date = last.stmts[1].date

W2_ValidCreateRedirected ==
    /\ CallIs("createInvoice", "validated")
    /\ last.formData = FormData(StrEntry("c1"), StrEntry(Text1999), StrEntry("paid"))
    /\ last.result.kind = "redirect"
    /\ last.stmts[1].date = <<"2", "0", "2", "5", "-", "0", "6", "-", "0", "9">>
    /\ Cardinality(store) = Cardinality(pre) + 1

(***************************************************************************)
(* C3.  createInvoice of the validated module, given a valid form and an   *)
(* INSERT that fails, returns exactly                                      *)
(* { message: "Database Error: Failed to Create Invoice." } without an     *)
(* errors key; it does not raise, invalidate, redirect or send the         *)
(* statement again.                                                        *)
(***************************************************************************)
C3_FailedInsertReturnsMessage ==
    (CallIs("createInvoice", "validated")
        /\ SafeParse(CreateInvoice, last.formData).success
        /\ ~last.dbOk)
    => /\ last.result.kind = "returned"
       /\ last.result.keys = {"message"}
       /\ last.result.message = "Database Error: Failed to Create Invoice."
       /\ last.result.errors = NoErrors
       /\ last.trace = <<Event("sql", "INSERT")>>
       /\ Len(last.stmts) = 1
       /\ store = pre

W3_FailedInsertReturned ==
    /\ CallIs("createInvoice", "validated")
    /\ ~last.dbOk
    /\ last.result.kind = "returned"
    /\ SqlCount = 1

(***************************************************************************)
(* C4.  updateInvoice of either module, given an id and a form its schema  *)
(* accepts, sends exactly one UPDATE for that id that sets customer_id,    *)
(* amount (the input * 100) and status; the row keeps its id and date and  *)
(* every other row is unchanged.  When the statement succeeds the listing  *)
(* is invalidated and then the call redirects; when it fails the call      *)
(* raises "Failed to update invoice" and neither invalidates nor           *)
(* redirects.                                                              *)
(***************************************************************************)
C4_UpdateOneRow ==
    (last.op = "updateInvoice"
        /\ SafeParse(SchemaOfUpdate(last.module), last.formData).success)
    => /\ Len(last.stmts) = 1
       /\ SqlCount = 1
       /\ last.stmts[1].op = "UPDATE"
       /\ last.stmts[1].id = last.id
       /\ last.stmts[1].customer_id = last.formData.customerId.v
       /\ last.stmts[1].amount = DoubleTimes(Number(last.formData.amount), 100)
       /\ last.stmts[1].status = last.formData.status.v
       /\ last.dbOk
          => /\ {r.id : r \in store} = {r.id : r \in pre}
             /\ Cardinality(store) = Cardinality(pre)
             /\ \A r \in pre : r.id # last.id => r \in store
             /\ \A r \in store : r.id = last.id
                    => /\ r.customer_id = last.stmts[1].customer_id
                       /\ r.amount = last.stmts[1].amount
                       /\ r.status = last.stmts[1].status
                       /\ \E p \in pre : p.id = r.id /\ p.date = r.date
             /\ last.trace = RedirectTrace("UPDATE")
             /\ last.result.kind = "redirect"
       /\ ~last.dbOk
          => /\ last.result.kind = "thrown"
             /\ last.result.error = "Error"
             /\ last.result.message = "Failed to update invoice"
             /\ ~Happened("revalidatePath")
             /\ ~Happened("redirect")
             /\ store = pre

W4_UpdatedOneOfTwoRows ==
    /\ last.op = "updateInvoice"
    /\ last.result.kind = "redirect"
    /\ store # pre
    /\ \E r \in store : r.id # last.id /\ r \in pre
    /\ \E r \in store : r.id = last.id

(***************************************************************************)
(* C5.  deleteInvoice of either module sends exactly one DELETE for the    *)
(* id; it removes at most the row with that id and leaves every other row  *)
(* unchanged.  When the statement succeeds the listing is invalidated and  *)
(* the call does not redirect; when it fails the store's failure reaches   *)
(* the caller as it is and nothing is invalidated.                         *)
(***************************************************************************)
C5_DeleteOneRow ==
    last.op = "deleteInvoice"
    => /\ Len(last.stmts) = 1
       /\ SqlCount = 1
       /\ last.stmts[1].op = "DELETE"
       /\ last.stmts[1].id = last.id
       /\ ~Happened("redirect")
       /\ last.result.kind # "redirect"
       /\ last.dbOk
          => /\ store = {r \in pre : r.id # last.id}
             /\ last.trace = <<Event("sql", "DELETE"),
                               Event("revalidatePath", InvoicesPath)>>
             /\ last.result.kind = "returned"
       /\ ~last.dbOk
          => /\ last.result.kind = "thrown"
             /\ last.result.error = "PostgresError"
             /\ ~Happened("revalidatePath")
             /\ store = pre

W5_DeletedOneOfTwoRows ==
    /\ last.op = "deleteInvoice"
    /\ last.dbOk
    /\ Cardinality(store) + 1 = Cardinality(pre)
    /\ store # {}

(***************************************************************************)
(* C6.  createInvoice of the validated module, given a customerId that is  *)
(* empty or not a string (absent included), with any amount and status,    *)
(* returns errors.customerId containing "Please select a customer." and    *)
(* writes nothing.                                                         *)
(***************************************************************************)
C6_EmptyCustomerRejected ==
    (CallIs("createInvoice", "validated")
        /\ (last.formData.customerId.t # "str" \/ last.formData.customerId.v = ""))
    => /\ last.result.kind = "returned"
       /\ "customerId" \in DOMAIN last.result.errors
       /\ "Please select a customer." \in Elems(last.result.errors["customerId"])
       /\ last.stmts = <<>>
       /\ store = pre

(***************************************************************************)
(* C7.  createInvoice of the validated module, given a status other than   *)
(* "pending" and "paid" (absent included), with any customerId and amount, *)
(* returns errors.status containing "Please select an invoice status."     *)
(* and writes nothing.                                                     *)
(***************************************************************************)
C7_UnknownStatusRejected ==
    (CallIs("createInvoice", "validated")
        /\ ~(last.formData.status.t = "str"
                /\ last.formData.status.v \in {"pending", "paid"}))
    => /\ last.result.kind = "returned"
       /\ "status" \in DOMAIN last.result.errors
       /\ "Please select an invoice status." \in Elems(last.result.errors["status"])
       /\ last.stmts = <<>>
       /\ store = pre

(***************************************************************************)
(* C8.  As claimed: createInvoice of the basic module raises, and sends no *)
(* INSERT, invalidates nothing and redirects nowhere, for every amount     *)
(* that is a non-numeric string, an empty string or absent.                *)
(***************************************************************************)
C8_NotNumericRaises_Original ==
    (CallIs("createInvoice", "basic")
        /\ \/ NonNumericEntry(last.formData.amount)
           \/ last.formData.amount.t = "null"
           \/ last.formData.amount = StrEntry(<<>>))
    => /\ last.result.kind = "thrown"
       /\ last.stmts = <<>>
       /\ last.trace = <<>>

(***************************************************************************)
(* C8, amended.  createInvoice of the basic module raises, and sends no    *)
(* INSERT, invalidates nothing and redirects nowhere, for every amount     *)
(* that does not coerce to a number (a non-numeric string or a File).  An  *)
(* empty or absent amount coerces to 0 and is not refused.                 *)
(***************************************************************************)
C8_NonNumericRaises ==
    (CallIs("createInvoice", "basic") /\ NonNumericEntry(last.formData.amount))
    => /\ last.result.kind = "thrown"
       /\ last.result.error = "ZodError"
       /\ "amount" \in DOMAIN last.result.errors
       /\ last.stmts = <<>>
       /\ last.trace = <<>>
       /\ store = pre

W8_NonNumericRaised ==
    /\ CallIs("createInvoice", "basic")
    /\ last.formData = FormData(StrEntry("c1"), StrEntry(<<"a", "b", "c">>),
                                StrEntry("paid"))
    /\ last.result.kind = "thrown"
    /\ DOMAIN last.result.errors = {"amount"}

(***************************************************************************)
(* C9.  As claimed: the two updateInvoice are equivalent.  Run on the      *)
(* table the last updateInvoice found, with its id, its form and the same  *)
(* outcome of the statement, the other module's updateInvoice sends the    *)
(* same statement (or none), raises in the same cases and leaves the same  *)
(* table, invalidation and redirect.                                       *)
(***************************************************************************)
OtherUpdate(ok) ==
    IF last.module = "validated"
    THEN basicUpdateInvoice(pre, nextId, last.id, last.formData, ok)
    ELSE updateInvoice(pre, nextId, last.id, last.formData, ok)

\* The outcomes of the statement the other module may meet.
Outcomes == IF last.stmts = <<>> THEN BOOLEAN ELSE {last.dbOk}

SameAsLast(e) ==
    /\ e.store = store
    /\ e.stmts = last.stmts
    /\ e.trace = last.trace
    /\ e.result.kind = last.result.kind
    /\ e.result.error = last.result.error
    /\ e.result.message = last.result.message

C9_UpdatesEquivalent_Original ==
    last.op = "updateInvoice" => \A ok \in Outcomes : SameAsLast(OtherUpdate(ok))

(***************************************************************************)
(* C9, amended.  The two updateInvoice are equivalent on every form whose  *)
(* amount coerces to a number above 0 or to no number.  On an amount that  *)
(* coerces to 0 or less the validated module raises the validation failure *)
(* and sends no UPDATE, where the basic module goes on to the UPDATE.      *)
(***************************************************************************)
C9_UpdatesEquivalentAboveZero ==
    last.op = "updateInvoice"
    => LET amount == Number(last.formData.amount)
       IN  /\ (amount.nan \/ DoubleGt0(amount))
              => \A ok \in Outcomes : SameAsLast(OtherUpdate(ok))
           /\ (~amount.nan /\ ~DoubleGt0(amount) /\ last.module = "validated")
              => /\ last.result.kind = "thrown"
                 /\ last.result.error = "ZodError"
                 /\ last.stmts = <<>>

W9_BasicUpdateAsValidated ==
    /\ CallIs("updateInvoice", "basic")
    /\ DoubleGt0(Number(last.formData.amount))
    /\ last.result.kind = "redirect"
    /\ store # pre
    /\ SameAsLast(updateInvoice(pre, nextId, last.id, last.formData, TRUE))

(***************************************************************************)
(* C10.  After any sequence of createInvoice and updateInvoice of either   *)
(* module, the amount of every row is an integer number of minor units,    *)
(* and the amount a create or update has just stored equals the decimal    *)
(* of the form multiplied by 100.                                          *)
(***************************************************************************)
C10_StoredAmountIsExactCents ==
    /\ \A r \in store : DoubleIsInteger(r.amount)
    /\ (last.op \in {"createInvoice", "updateInvoice"}
           /\ last.result.kind = "redirect"
           /\ last.formData.amount.t = "str")
       => LET dec  == ParseDecimal(last.formData.amount.v)
              sent == last.stmts[1].amount
          IN  /\ (dec.n * 100) % Pow(10, dec.k) = 0
              /\ DoubleIsInteger(sent)
              /\ DoubleToInt(sent)
                     = (IF dec.neg THEN -1 ELSE 1) * ((dec.n * 100) \div Pow(10, dec.k))
====
